---- MODULE Spec2Model ----
(***************************************************************************)
(* PHCIP_JC daily reporting dashboard (src/dashboard.py).                  *)
(*                                                                         *)
(* One run of main(): load_data reads the two extracts, process_data      *)
(* reconciles them, the sidebar widgets give a filter selection, the       *)
(* filters give display_df, then the red-flag section and the daily trend  *)
(* table are computed, then the statistics below the table and the map.    *)
(* load_data is memoized by st.cache_data(ttl=3600).  A run is started     *)
(* either by dashboard.py as the main script or by streamlit_app.main.     *)
(*                                                                         *)
(* Representation.  A text is a sequence of one-character strings.  An     *)
(* empty spreadsheet cell read by pandas is NaN; a nullable number is a    *)
(* record [na, v].  A pandas Timestamp is a record [y, m, d, hh, mi, ss].  *)
(* A data frame is a sequence of rows (records); the field src of a        *)
(* reconciled row is the position of the transaction row it derives from:  *)
(* it is bookkeeping of the model, not a column of the frame.              *)
(***************************************************************************)
EXTENDS Integers, Sequences, FiniteSets, TLC

VARIABLES
    daily_file,     \* the transaction extract on disk: [exists, has_id, rows]
    legacy_file,    \* the legacy extract on disk: [exists, has_id, rows]
    user,           \* what the user has set in the sidebar widgets
    daily_df,       \* load_data's first result (None or rows)
    legacy_df,      \* load_data's second result (None or rows)
    processed_df,   \* process_data's merged_df (None or rows)
    sel,            \* the values the sidebar widgets returned in this run
    display_df,     \* the filtered relation
    red_flag_msgs,  \* the red-flag message list
    daily,          \* the trend table, Grand Total row last
    errors,         \* the st.error / st.sidebar.error messages shown
    pc,             \* the position of the run in main()
    entry,          \* the script the run is started with
    session_state,  \* st.session_state: the keys set, with their values
    globals,        \* the names the __main__ block of dashboard.py has bound
    summary,        \* the "Summary Statistics" of the display subset
    stats,          \* the four statistics below the trend table
    fig,            \* the map figure
    now,            \* the clock, in seconds
    cache,          \* st.cache_data's entry for load_data
    served          \* the last call of load_data: when it was made, when
                    \* the frames it returned were computed, and the
                    \* entry it found (bookkeeping of the model)

vars == <<daily_file, legacy_file, user, daily_df,
          legacy_df, processed_df, sel, display_df, red_flag_msgs, daily,
          errors, pc, entry, session_state, globals, summary, stats, fig,
          now, cache, served>>

(***************************************************************************)
(* Bounds of the model.                                                    *)
(***************************************************************************)
MaxRows == 2        \* rows of the transaction extract
MaxLegacy == 2      \* rows of the legacy extract

(***************************************************************************)
(* Texts and cells.                                                        *)
(***************************************************************************)
None == [some |-> FALSE, rows |-> <<>>]
Some(rows) == [some |-> TRUE, rows |-> rows]
\* the transaction frame, with the dtype of its 'Transaction Time' column:
\* object (texts) as read from the sheet, datetime64[ns] once parsed
Loaded(rows) == [some |-> TRUE, rows |-> rows, time_dtype |-> "object"]
Parsed(rows) ==
    [some |-> TRUE, rows |-> rows, time_dtype |-> "datetime64[ns]"]
NaN == <<"#NaN">>
NaT == [y |-> 0, m |-> 0, d |-> 0, hh |-> 0, mi |-> 0, ss |-> 0]

isna(x) == x = NaN
NumNaN == [na |-> TRUE, v |-> 0]
Num(n) == [na |-> FALSE, v |-> n]

Digits == <<"0", "1", "2", "3", "4", "5", "6", "7", "8", "9">>
IsDigit(c) == \E i \in 1..10 : Digits[i] = c
DigitVal(c) == (CHOOSE i \in 1..10 : Digits[i] = c) - 1

UpperCase == <<"A", "B", "C", "D", "E", "F", "G", "H", "I", "J", "K", "L", "M",
               "N", "O", "P", "Q", "R", "S", "T", "U", "V", "W", "X", "Y", "Z">>
LowerCase == <<"a", "b", "c", "d", "e", "f", "g", "h", "i", "j", "k", "l", "m",
               "n", "o", "p", "q", "r", "s", "t", "u", "v", "w", "x", "y", "z">>
lower_char(c) ==
    IF \E i \in 1..26 : UpperCase[i] = c
    THEN LowerCase[CHOOSE i \in 1..26 : UpperCase[i] = c]
    ELSE c
lower(s) == [i \in 1..Len(s) |-> lower_char(s[i])]

IsSpace(c) == c \in {" ", "\t", "\n"}

\* str.strip(): drop the leading and the trailing whitespace
RECURSIVE lstrip(_)
lstrip(s) == IF s # <<>> /\ IsSpace(Head(s)) THEN lstrip(Tail(s)) ELSE s
RECURSIVE rstrip(_)
rstrip(s) ==
    IF s # <<>> /\ IsSpace(s[Len(s)]) THEN rstrip(SubSeq(s, 1, Len(s) - 1))
    ELSE s
strip(s) == rstrip(lstrip(s))

\* str() of a non-negative integer
RECURSIVE NatText(_)
NatText(n) ==
    IF n < 10 THEN <<Digits[n + 1]>>
    ELSE NatText(n \div 10) \o <<Digits[(n % 10) + 1]>>
IntText(n) == IF n < 0 THEN <<"-">> \o NatText(0 - n) ELSE NatText(n)
Pad2(n) == IF n < 10 THEN <<"0">> \o NatText(n) ELSE NatText(n)

\* astype(str) of one cell of an object column: str(nan) is 'nan'
astype_str(x) == IF isna(x) THEN <<"n", "a", "n">> ELSE x

\* s contains t as a (contiguous) substring
contains(s, t) ==
    \E i \in 1..(Len(s) - Len(t) + 1) : SubSeq(s, i, i + Len(t) - 1) = t

(***************************************************************************)
(* load_data                                                               *)
(***************************************************************************)
\* daily_df['CNIC'] = daily_df['CNIC'].astype(str).str.strip()
CleanDaily(rows) ==
    [i \in 1..Len(rows) |->
        [rows[i] EXCEPT !.CNIC = strip(astype_str(rows[i].CNIC))]]

\* legacy_df['MotherCNIC'] = legacy_df['MotherCNIC'].astype(str).str.strip()
CleanLegacy(rows) ==
    [i \in 1..Len(rows) |->
        [rows[i] EXCEPT !.MotherCNIC = strip(astype_str(rows[i].MotherCNIC))]]

ErrDailyMissing == "Daily report file not found"
ErrLegacyMissing == "Legacy recon file not found"
ErrLoading == "Error loading data: CNIC or MotherCNIC column not found in one or both datasets"
ErrFailed == "Failed to load data. Please check the file paths and try again."
ErrProcessing == "Error processing data"
ErrDateOrder == "From date must be before To date."

\* load_data without its "Basic data validation"
load_data_error_unvalidated(df, lf) ==
    IF ~df.exists THEN ErrDailyMissing
    ELSE IF ~lf.exists THEN ErrLegacyMissing
    ELSE "ok"

\* the error load_data reports for the two files, "ok" if none
load_data_error(df, lf) ==
    IF ~df.exists THEN ErrDailyMissing
    ELSE IF ~lf.exists THEN ErrLegacyMissing
    ELSE IF ~df.has_id \/ ~lf.has_id THEN ErrLoading
    ELSE "ok"

(***************************************************************************)
(* process_data: timestamps                                                *)
(***************************************************************************)
IsLeap(y) == (y % 4 = 0 /\ y % 100 # 0) \/ y % 400 = 0
DaysInMonth(y, m) ==
    IF m = 2 THEN (IF IsLeap(y) THEN 29 ELSE 28)
    ELSE IF m \in {4, 6, 9, 11} THEN 30 ELSE 31

\* the number the digits s[i..j] spell
RECURSIVE FieldVal(_, _, _)
FieldVal(s, i, j) ==
    IF j < i THEN 0 ELSE 10 * FieldVal(s, i, j - 1) + DigitVal(s[j])

\* the text has the shape dd-mm-YYYY HH:MM:SS (zero-padded fields)
TimeShape(s) ==
    /\ Len(s) = 19
    /\ s[3] = "-" /\ s[6] = "-" /\ s[11] = " " /\ s[14] = ":" /\ s[17] = ":"
    /\ \A i \in (1..19) \ {3, 6, 11, 14, 17} : IsDigit(s[i])

\* pd.to_datetime(cell, format='%d-%m-%Y %H:%M:%S', errors='coerce'):
\* a text that does not match the format, or names no date, becomes NaT
to_datetime(s) ==
    IF isna(s) \/ ~TimeShape(s) THEN NaT
    ELSE LET t == [d |-> FieldVal(s, 1, 2), m |-> FieldVal(s, 4, 5),
                   y |-> FieldVal(s, 7, 10), hh |-> FieldVal(s, 12, 13),
                   mi |-> FieldVal(s, 15, 16), ss |-> FieldVal(s, 18, 19)]
         IN IF /\ t.m \in 1..12
               /\ t.y >= 1
               /\ t.d \in 1..DaysInMonth(t.y, t.m)
               /\ t.hh \in 0..23 /\ t.mi \in 0..59 /\ t.ss \in 0..59
            THEN t ELSE NaT

isnat(t) == t = NaT

\* Timestamp.date() as a number that orders dates: yyyymmdd
DateOf(t) == t.y * 10000 + t.m * 100 + t.d
SecondOfDay(t) == (t.hh * 60 + t.mi) * 60 + t.ss
\* the order of Timestamps: t <= u
TimeLE(t, u) ==
    \/ DateOf(t) < DateOf(u)
    \/ DateOf(t) = DateOf(u) /\ SecondOfDay(t) <= SecondOfDay(u)

\* daily_df['Transaction Time'] = pd.to_datetime(daily_df['Transaction Time'], ...)
ParseTimes(rows) ==
    [i \in 1..Len(rows) |->
        [rows[i] EXCEPT !.TransactionTime = to_datetime(rows[i].TransactionTime)]]

(***************************************************************************)
(* process_data: merge, Status, Balance_Category                           *)
(***************************************************************************)
\* the positions of the legacy rows whose MotherCNIC equals the key, in order
RECURSIVE MatchesFrom(_, _, _)
MatchesFrom(lrows, key, j) ==
    IF j > Len(lrows) THEN <<>>
    ELSE (IF lrows[j].MotherCNIC = key THEN <<j>> ELSE <<>>)
         \o MatchesFrom(lrows, key, j + 1)

\* the rows pd.merge(how='left') gives for transaction row i: one per matching
\* legacy row, or one with MotherCNIC and Amount absent when none matches
MergeRow(drows, lrows, i) ==
    LET r == drows[i]
        base == [src |-> i, CNIC |-> r.CNIC,
                 TransactionTime |-> r.TransactionTime,
                 WithdrawalAmount |-> r.WithdrawalAmount,
                 DistrictName |-> r.DistrictName,
                 DeviceLatitude |-> r.DeviceLatitude,
                 DeviceLongitude |-> r.DeviceLongitude]
        ms == MatchesFrom(lrows, r.CNIC, 1)
        with(k, a) == base @@ [MotherCNIC |-> k, Amount |-> a]
    IN IF ms = <<>> THEN <<with(NaN, NumNaN)>>
       ELSE [n \in 1..Len(ms) |->
                with(lrows[ms[n]].MotherCNIC, lrows[ms[n]].Amount)]

RECURSIVE MergeFrom(_, _, _)
MergeFrom(drows, lrows, i) ==
    IF i > Len(drows) THEN <<>>
    ELSE MergeRow(drows, lrows, i) \o MergeFrom(drows, lrows, i + 1)

\* pd.merge(daily_df, legacy_df[['MotherCNIC','Amount']], left_on='CNIC',
\*          right_on='MotherCNIC', how='left')
merge(drows, lrows) == MergeFrom(drows, lrows, 1)

\* 'Legacy' if pd.notnull(row['MotherCNIC']) else 'Non-Legacy'
StatusOf(row) == IF ~isna(row.MotherCNIC) THEN "Legacy" ELSE "Non-Legacy"

\* merged_df['Amount'].fillna(0)
fillna0(a) == IF a.na THEN 0 ELSE a.v

BinLow == 1000
BinMedium == 5000
BinHigh == 10000

\* cut with left-closed intervals, as pd.cut(..., right=False) gives
cut_right_false(x) ==
    IF x < 0 THEN "No Balance"
    ELSE IF x < BinLow THEN "Low"
    ELSE IF x < BinMedium THEN "Medium"
    ELSE IF x < BinHigh THEN "High"
    ELSE "Very High"

\* pd.cut(x, bins=[-inf, 0, 1000, 5000, 10000, inf], labels=[...]):
\* right-closed intervals
cut(x) ==
    IF x <= 0 THEN "No Balance"
    ELSE IF x <= BinLow THEN "Low"
    ELSE IF x <= BinMedium THEN "Medium"
    ELSE IF x <= BinHigh THEN "High"
    ELSE "Very High"

Derive(rows) ==
    [i \in 1..Len(rows) |->
        rows[i] @@ [Status |-> StatusOf(rows[i]),
                    Balance_Category |-> cut(fillna0(rows[i].Amount))]]

\* merged_df of process_data(daily_df, legacy_df)
process_data(drows, lrows) == Derive(merge(ParseTimes(drows), lrows))

(***************************************************************************)
(* A data frame holds its rows and the dtype of its Amount column, which   *)
(* a row selection keeps: float64 as soon as one Amount of the merged      *)
(* frame is absent, int64 otherwise.                                       *)
(***************************************************************************)
Frame(rows, af) == [some |-> TRUE, rows |-> rows, amount_float |-> af]
AmountIsFloat(rows) == \E i \in 1..Len(rows) : rows[i].Amount.na

RECURSIVE SelectFrom(_, _, _)
SelectFrom(rows, mask, i) ==
    IF i > Len(rows) THEN <<>>
    ELSE (IF mask[i] THEN <<rows[i]>> ELSE <<>>)
         \o SelectFrom(rows, mask, i + 1)
\* df[mask]: the rows the boolean mask keeps, in order
Select(rows, mask) == SelectFrom(rows, mask, 1)

(***************************************************************************)
(* main: the sidebar widgets                                               *)
(***************************************************************************)
T_All == <<"A", "l", "l">>
T_Blank == <<"B", "l", "a", "n", "k">>
T_nan == <<"n", "a", "n">>
T_NaT == <<"N", "a", "T">>

balance_category_order == <<"No Balance", "Low", "Medium", "High", "Very High">>
balance_category_labels(cat) ==
    CASE cat = "No Balance" -> "No Balance (0)"
      [] cat = "Low" -> "Low (1-1,000)"
      [] cat = "Medium" -> "Medium (1,001-5,000)"
      [] cat = "High" -> "High (5,001-10,000)"
      [] cat = "Very High" -> "Very High (10,001+)"

ValidTimes(rows) ==
    {rows[i].TransactionTime : i \in {j \in 1..Len(rows) :
                                        ~isnat(rows[j].TransactionTime)}}
\* processed_df['Transaction Time'].min() / .max() (NaT is skipped)
min_time(rows) ==
    CHOOSE t \in ValidTimes(rows) :
        \A u \in ValidTimes(rows) : TimeLE(t, u)
max_time(rows) ==
    CHOOSE t \in ValidTimes(rows) :
        \A u \in ValidTimes(rows) : TimeLE(u, t)

\* ['All'] + processed_df['Status'].unique().tolist()
status_options(rows) == {"All"} \cup {rows[i].Status : i \in 1..Len(rows)}
\* ['All'] + the labels of the categories present in the data
balance_options(rows) ==
    {"All"} \cup {balance_category_labels(rows[i].Balance_Category) :
                     i \in 1..Len(rows)}
\* ['All'] + processed_df['District Name'].fillna('Blank').unique().tolist()
district_options(rows) ==
    {T_All} \cup {IF isna(rows[i].DistrictName) THEN T_Blank
                  ELSE rows[i].DistrictName : i \in 1..Len(rows)}

\* the dates the two date pickers offer: those of the data (a part of
\* the range min_date..max_date the pickers allow)
date_options(rows) == {DateOf(t) : t \in ValidTimes(rows)}

\* the selections the widgets can return for a reconciled relation
Selections(rows, terms) ==
    [from_date : date_options(rows), to_date : date_options(rows),
     status_filter : status_options(rows),
     balance_filter : balance_options(rows),
     district_filter : district_options(rows),
     search_term : terms]

(***************************************************************************)
(* main: the filters                                                       *)
(***************************************************************************)
Pad4(n) ==
    IF n < 10 THEN <<"0", "0", "0">> \o NatText(n)
    ELSE IF n < 100 THEN <<"0", "0">> \o NatText(n)
    ELSE IF n < 1000 THEN <<"0">> \o NatText(n)
    ELSE NatText(n)

DateText(t) == Pad4(t.y) \o <<"-">> \o Pad2(t.m) \o <<"-">> \o Pad2(t.d)
ClockText(t) == Pad2(t.hh) \o <<":">> \o Pad2(t.mi) \o <<":">> \o Pad2(t.ss)

\* every timestamp of the frame that is not NaT is at midnight
is_dates_only(rows) ==
    \A i \in 1..Len(rows) :
        LET t == rows[i].TransactionTime
        IN isnat(t) \/ (t.hh = 0 /\ t.mi = 0 /\ t.ss = 0)

\* astype(str) of a datetime64 column: the format is chosen for the whole
\* column, '%Y-%m-%d' when it holds dates only
TimeText(t, dates_only) ==
    IF isnat(t) THEN T_NaT
    ELSE IF dates_only THEN DateText(t)
    ELSE DateText(t) \o <<" ">> \o ClockText(t)

\* str() of a float held in tenths
FloatText(n) ==
    IF n.na THEN T_nan ELSE NatText(n.v \div 10) \o <<".">> \o NatText(n.v % 10)
\* astype(str) of the Amount column
AmountText(a, is_float) ==
    IF a.na THEN T_nan
    ELSE IF is_float THEN IntText(a.v) \o <<".", "0">>
    ELSE IntText(a.v)

IdentText(name) ==
    CASE name = "Legacy" -> <<"L", "e", "g", "a", "c", "y">>
      [] name = "Non-Legacy" ->
            <<"N", "o", "n", "-", "L", "e", "g", "a", "c", "y">>
      [] name = "No Balance" ->
            <<"N", "o", " ", "B", "a", "l", "a", "n", "c", "e">>
      [] name = "Low" -> <<"L", "o", "w">>
      [] name = "Medium" -> <<"M", "e", "d", "i", "u", "m">>
      [] name = "High" -> <<"H", "i", "g", "h">>
      [] name = "Very High" -> <<"V", "e", "r", "y", " ", "H", "i", "g", "h">>

\* display_df.astype(str): the texts of the columns of one row
RowTexts(r, dates_only, is_float) ==
    {r.CNIC, TimeText(r.TransactionTime, dates_only),
     IntText(r.WithdrawalAmount), astype_str(r.DistrictName),
     FloatText(r.DeviceLatitude), FloatText(r.DeviceLongitude),
     astype_str(r.MotherCNIC), AmountText(r.Amount, is_float),
     IdentText(r.Status), IdentText(r.Balance_Category)}

\* x.str.contains(search_term, case=False, na=False) on some column
SearchHit(r, term, dates_only, is_float) ==
    \E t \in RowTexts(r, dates_only, is_float) : contains(lower(t), lower(term))

DateKeep(r, s) ==
    /\ ~isnat(r.TransactionTime)
    /\ DateOf(r.TransactionTime) >= s.from_date
    /\ DateOf(r.TransactionTime) <= s.to_date
StatusKeep(r, s) == s.status_filter = "All" \/ r.Status = s.status_filter
BalanceKeep(r, s) ==
    s.balance_filter = "All" \/ r.Balance_Category = s.balance_filter
DistrictKeep(r, s) ==
    \/ s.district_filter = T_All
    \/ IF s.district_filter = T_Blank THEN isna(r.DistrictName)
       ELSE r.DistrictName = s.district_filter

DateFilter(rows, s) ==
    Select(rows, [i \in 1..Len(rows) |-> DateKeep(rows[i], s)])
StatusFilter(rows, s) ==
    Select(rows, [i \in 1..Len(rows) |-> StatusKeep(rows[i], s)])
BalanceFilter(rows, s) ==
    Select(rows, [i \in 1..Len(rows) |-> BalanceKeep(rows[i], s)])
DistrictFilter(rows, s) ==
    Select(rows, [i \in 1..Len(rows) |-> DistrictKeep(rows[i], s)])
\* the search filter, on the frame the other filters left
SearchFilter(rows, is_float, s) ==
    IF s.search_term = <<>> THEN rows
    ELSE Select(rows, [i \in 1..Len(rows) |->
                         SearchHit(rows[i], s.search_term,
                                   is_dates_only(rows), is_float)])

\* main, "APPLY FILTERS": the display subset of a frame
ApplyFilters(df, s) ==
    Frame(SearchFilter(
              DistrictFilter(
                  BalanceFilter(
                      StatusFilter(DateFilter(df.rows, s), s), s), s),
              df.amount_float, s),
          df.amount_float)

(***************************************************************************)
(* main: the red-flag section                                              *)
(***************************************************************************)
\* mask.sum()
CountTrue(mask) == Cardinality({i \in DOMAIN mask : mask[i]})
\* df[mask]['CNIC'].nunique(): the distinct identifiers, NaN not counted
NUniqueCNIC(rows, mask) ==
    Cardinality({rows[i].CNIC : i \in {j \in 1..Len(rows) :
                                         mask[j] /\ ~isna(rows[j].CNIC)}})

\* display_df['District Name'].isna()
BlankDistrict(rows) == [i \in 1..Len(rows) |-> isna(rows[i].DistrictName)]
\* display_df['Device Latitude'].isna() | display_df['Device Longitude'].isna()
MissingCoords(rows) ==
    [i \in 1..Len(rows) |->
        rows[i].DeviceLatitude.na \/ rows[i].DeviceLongitude.na]
\* display_df['CNIC'].isna()
MissingCNIC(rows) == [i \in 1..Len(rows) |-> isna(rows[i].CNIC)]

\* red_flag_msgs for a frame: each message with the numbers it embeds
RedFlags(rows) ==
    LET m1 == IF CountTrue(BlankDistrict(rows)) > 0
              THEN <<[kind |-> "Blank District",
                      count |-> CountTrue(BlankDistrict(rows)),
                      unique |-> NUniqueCNIC(rows, BlankDistrict(rows))]>>
              ELSE <<>>
        m2 == IF CountTrue(MissingCoords(rows)) > 0
              THEN <<[kind |-> "missing coordinates",
                      count |-> CountTrue(MissingCoords(rows)),
                      unique |-> NUniqueCNIC(rows, MissingCoords(rows))]>>
              ELSE <<>>
        m3 == IF CountTrue(MissingCNIC(rows)) > 0
              THEN <<[kind |-> "missing CNIC",
                      count |-> CountTrue(MissingCNIC(rows))]>>
              ELSE <<>>
        msgs == m1 \o m2 \o m3
    IN IF msgs = <<>> THEN <<[kind |-> "No major data issues detected."]>>
       ELSE msgs

(***************************************************************************)
(* main: the daily withdrawal trends table                                 *)
(***************************************************************************)
MonthAbbr ==
    << <<"J", "a", "n">>, <<"F", "e", "b">>, <<"M", "a", "r">>,
       <<"A", "p", "r">>, <<"M", "a", "y">>, <<"J", "u", "n">>,
       <<"J", "u", "l">>, <<"A", "u", "g">>, <<"S", "e", "p">>,
       <<"O", "c", "t">>, <<"N", "o", "v">>, <<"D", "e", "c">> >>

\* Timestamp.strftime('%d-%b'); NaT gives NaN
strftime_d_b(t) ==
    IF isnat(t) THEN NaN ELSE Pad2(t.d) \o <<"-">> \o MonthAbbr[t.m]

\* pd.to_datetime(label, format='%d-%b'): the year defaults to 1900; the
\* result as the number 1900mmdd
label_key(label) ==
    LET m == CHOOSE k \in 1..12 : MonthAbbr[k] = SubSeq(label, 4, 6)
    IN 19000000 + m * 100 + FieldVal(label, 1, 2)

RECURSIVE SumOver(_, _)
SumOver(f, S) ==
    IF S = {} THEN 0
    ELSE LET x == CHOOSE y \in S : TRUE IN f[x] + SumOver(f, S \ {x})

\* the positions of the rows of a bucket
BucketRows(rows, label) ==
    {i \in 1..Len(rows) : strftime_d_b(rows[i].TransactionTime) = label}
\* groupby('Date'): the labels, NaN dropped
Labels(rows) ==
    {strftime_d_b(rows[i].TransactionTime) : i \in 1..Len(rows)} \ {NaN}

\* sort_values('Date', key=... to_datetime(x, format='%d-%b'))
RECURSIVE SortLabels(_)
SortLabels(S) ==
    IF S = {} THEN <<>>
    ELSE LET x == CHOOSE y \in S : \A z \in S : label_key(y) <= label_key(z)
         IN <<x>> \o SortLabels(S \ {x})

Abs(n) == IF n < 0 THEN 0 - n ELSE n
\* |n / d| rounded to the nearest integer, halves to the even one (d # 0)
RoundHalfEven(n, d) ==
    LET q == Abs(n) \div Abs(d)
        r == Abs(n) % Abs(d)
    IN IF 2 * r > Abs(d) \/ (2 * r = Abs(d) /\ q % 2 = 1) THEN q + 1 ELSE q
Negative(n, d) == (n < 0 /\ d > 0) \/ (n > 0 /\ d < 0)

\* f"{n:,}" of a non-negative integer
RECURSIVE CommaText(_)
CommaText(n) ==
    IF n < 1000 THEN NatText(n)
    ELSE LET low == n % 1000
             pad == IF low < 10 THEN <<"0", "0">>
                    ELSE IF low < 100 THEN <<"0">> ELSE <<>>
         IN CommaText(n \div 1000) \o <<",">> \o pad \o NatText(low)

\* int(x.replace(',', ''))
RECURSIVE uncomma(_)
uncomma(s) ==
    IF s = <<>> THEN 0
    ELSE IF s[Len(s)] = "," THEN uncomma(SubSeq(s, 1, Len(s) - 1))
    ELSE 10 * uncomma(SubSeq(s, 1, Len(s) - 1)) + DigitVal(s[Len(s)])

T_dash == <<"-">>
T_inf_pct == <<"i", "n", "f", "%">>
T_GrandTotal == <<"G", "r", "a", "n", "d", " ", "T", "o", "t", "a", "l">>

\* pct_change().fillna(0) then f"{x*100:.0f}%" if x != 0 else '-', for a
\* bucket that follows one of amount prev
pct_text(cur, prev) ==
    IF prev = 0 THEN (IF cur = 0 THEN T_dash ELSE T_inf_pct)
    ELSE IF cur = prev THEN T_dash
    ELSE (IF Negative(cur - prev, prev) THEN <<"-">> ELSE <<>>)
         \o NatText(RoundHalfEven(100 * (cur - prev), prev)) \o <<"%">>

\* the per-day rows of the trend table for processed_df
DailyRows(rows) ==
    LET order == SortLabels(Labels(rows))
        wa == [i \in 1..Len(rows) |-> rows[i].WithdrawalAmount]
        amount(k) == SumOver(wa, BucketRows(rows, order[k]))
        inb(k) == NUniqueCNIC(rows, [i \in 1..Len(rows) |->
                     strftime_d_b(rows[i].TransactionTime) = order[k]])
    IN [k \in 1..Len(order) |->
           [Date |-> order[k],
            PLWs |-> inb(k),
            WithdrawalAmount |-> CommaText(amount(k)),
            PctIncrease |-> IF k = 1 THEN T_dash
                            ELSE pct_text(amount(k), amount(k - 1)),
            AvgWtdrPLW |-> CommaText(RoundHalfEven(amount(k), inb(k)))]]

RECURSIVE SumPLWs(_, _)
SumPLWs(t, k) == IF k = 0 THEN 0 ELSE t[k].PLWs + SumPLWs(t, k - 1)

\* the Grand Total row appended to the per-day rows t
GrandTotal(rows, t) ==
    LET wa == [i \in 1..Len(rows) |-> rows[i].WithdrawalAmount]
        total == SumOver(wa, 1..Len(rows))
        plws == SumPLWs(t, Len(t))
    IN [Date |-> T_GrandTotal,
        PLWs |-> plws,
        WithdrawalAmount |-> CommaText(total),
        PctIncrease |-> T_dash,
        AvgWtdrPLW |-> CommaText(total \div plws)]

\* daily = pd.concat([daily, grand_total])
TrendTable(rows) ==
    LET t == DailyRows(rows) IN Append(t, GrandTotal(rows, t))

(***************************************************************************)
(* main: the summary statistics of the display subset                      *)
(***************************************************************************)
\* display_df['Status'] == status
StatusIs(rows, status) == [i \in 1..Len(rows) |-> rows[i].Status = status]
AllOf(rows) == [i \in 1..Len(rows) |-> TRUE]
\* display_df.loc[mask, 'Withdrawal Amount'].sum()
Withdrawal(rows, mask) ==
    SumOver([i \in 1..Len(rows) |-> rows[i].WithdrawalAmount],
            {i \in 1..Len(rows) : mask[i]})
\* legacy_df['Amount'].sum(): NaN is skipped
LegacyAmountSum(lrows) ==
    SumOver([j \in 1..Len(lrows) |-> fillna0(lrows[j].Amount)],
            1..Len(lrows))

NoSummary == [some |-> FALSE]
\* the twelve numbers of the four rows of "Summary Statistics"
SummaryStatistics(rows, lrows) ==
    [some |-> TRUE,
     total_records |-> Len(rows),
     legacy_records |-> CountTrue(StatusIs(rows, "Legacy")),
     nonlegacy_records |-> CountTrue(StatusIs(rows, "Non-Legacy")),
     unique_records |-> NUniqueCNIC(rows, AllOf(rows)),
     legacy_unique_records |-> NUniqueCNIC(rows, StatusIs(rows, "Legacy")),
     nonlegacy_unique_records |->
         NUniqueCNIC(rows, StatusIs(rows, "Non-Legacy")),
     total_withdrawal |-> Withdrawal(rows, AllOf(rows)),
     legacy_withdrawal |-> Withdrawal(rows, StatusIs(rows, "Legacy")),
     nonlegacy_withdrawal |-> Withdrawal(rows, StatusIs(rows, "Non-Legacy")),
     total_legacy_records_file |-> Len(lrows),
     legacy_total_amount_file |-> LegacyAmountSum(lrows),
     legacy_balance_remaining |->
         LegacyAmountSum(lrows) - Withdrawal(rows, StatusIs(rows, "Legacy"))]

(***************************************************************************)
(* main: the statistics below the trend table                              *)
(***************************************************************************)
T_Pilot == <<"1", "8", "-", "A", "p", "r">>

\* the rows of the table but the Grand Total row
daily_for_avg_all(t) ==
    Select(t, [k \in 1..Len(t) |-> t[k].Date # T_GrandTotal])

\* daily[~daily['Date'].isin(['18-Apr', 'Grand Total'])]
daily_for_avg(t) ==
    Select(t, [k \in 1..Len(t) |-> t[k].Date \notin {T_Pilot, T_GrandTotal}])

\* Series.max() of a non-empty set of numbers
MaxOf(S) == CHOOSE x \in S : \A y \in S : y <= x

\* the sum of int(x.replace(',', '')) over the first k rows
RECURSIVE SumParsed(_, _)
SumParsed(t, k) ==
    IF k = 0 THEN 0 ELSE uncomma(t[k].WithdrawalAmount) + SumParsed(t, k - 1)

NoStats == [some |-> FALSE]
\* highest_plws, highest_withdrawal, avg_plws, avg_withdrawal for the rows d
\* of daily_for_avg (d not empty); int() of a mean cuts the fraction off
StatsOver(d) ==
    [some |-> TRUE,
     highest_plws |-> MaxOf({d[k].PLWs : k \in 1..Len(d)}),
     highest_withdrawal |->
         MaxOf({uncomma(d[k].WithdrawalAmount) : k \in 1..Len(d)}),
     avg_plws |-> SumPLWs(d, Len(d)) \div Len(d),
     avg_withdrawal |-> SumParsed(d, Len(d)) \div Len(d)]

(***************************************************************************)
(* The two entry points, st.session_state and the names the __main__ block *)
(* of dashboard.py binds.  An exception that leaves dashboard.main is      *)
(* caught and reported by streamlit_app.main; when dashboard.py is the     *)
(* main script nothing catches it and Streamlit shows it.                  *)
(***************************************************************************)
EntryPoints == {"dashboard.py", "streamlit_app.py"}

ErrOccurred == "An error occurred"
ErrUncaught == "Uncaught exception"
\* the error a run shows for an exception raised in dashboard.main
Raised(e) == IF e = "streamlit_app.py" THEN ErrOccurred ELSE ErrUncaught

\* a mapping from names to values, and the mapping that binds nothing
NoNames == [k \in {} |-> 0]
Bound(names, k) == k \in DOMAIN names
\* names[k] = v
Bind(names, k, v) ==
    [x \in DOMAIN names \cup {k} |-> IF x = k THEN v ELSE names[x]]
\* if k not in names: names[k] = v
SetDefault(names, k, v) == IF Bound(names, k) THEN names ELSE Bind(names, k, v)

\* {"lat": 31.1471, "lon": 75.3412}, in ten-thousandths of a degree
punjab_center == [lat |-> 311471, lon |-> 753412]
\* the bounds of Pakistan, in tenths of a degree
pakistan_bounds ==
    [west |-> 605, east |-> 770, south |-> 235, north |-> 372]

\* what the __main__ block of dashboard.py binds before it calls main()
MainBlockGlobals ==
    Bind(Bind(NoNames, "punjab_center", punjab_center),
         "pakistan_bounds", pakistan_bounds)
MainBlockSession(ss) ==
    SetDefault(SetDefault(ss, "map_zoom", 6), "map_center", punjab_center)

(***************************************************************************)
(* main: the map.  The figure is held as the set of the rows it plots, its *)
(* viewport and its bounds.                                                *)
(***************************************************************************)
NoFig == [some |-> FALSE]
\* display_df.dropna(subset=['Device Latitude', 'Device Longitude'])
MapRows(rows) ==
    {rows[i] : i \in {j \in 1..Len(rows) :
                        ~rows[j].DeviceLatitude.na
                        /\ ~rows[j].DeviceLongitude.na}}
\* the names px.scatter_mapbox and update_layout read are bound
MapReady(ss, g) ==
    /\ Bound(ss, "map_zoom")
    /\ Bound(ss, "map_center")
    /\ Bound(g, "pakistan_bounds")
Figure(rows, ss, g) ==
    [some |-> TRUE, points |-> MapRows(rows), zoom |-> ss["map_zoom"],
     center |-> ss["map_center"], bounds |-> g["pakistan_bounds"]]

(***************************************************************************)
(* st.cache_data(ttl=3600) around load_data: one entry (load_data takes no *)
(* argument), returned while it is less than ttl seconds old; the st.error *)
(* calls of the cached call are replayed with it.                          *)
(***************************************************************************)
CacheTTL == 3600
NoEntry == [some |-> FALSE]

\* an entry that is returned whatever its age
cache_never_expires(c, t) == c.some

\* the entry is there and has not expired at time t
cache_fresh(c, t) == c.some /\ t < c.at + CacheTTL

\* what the body of load_data returns for the two files
load_data(df, lf) ==
    IF load_data_error(df, lf) = "ok"
    THEN [daily |-> Loaded(CleanDaily(df.rows)),
          legacy |-> Some(CleanLegacy(lf.rows)), errors |-> {}]
    ELSE [daily |-> None, legacy |-> None,
          errors |-> {load_data_error(df, lf)}]

\* the entry stored for a call of load_data at time t
Entry(r, t) ==
    [some |-> TRUE, at |-> t, daily |-> r.daily, legacy |-> r.legacy,
     errors |-> r.errors]

\* "From date must be before To date." is not shown
no_date_order_error(s) == {}

\* if from_date > to_date: st.sidebar.error(...)
date_order_error(s) ==
    IF s.from_date > s.to_date THEN {ErrDateOrder} ELSE {}

(***************************************************************************)
(* The extracts and the selections of the runs that are checked.           *)
(*                                                                         *)
(* The runs cover extracts of at most MaxRows transaction rows and         *)
(* MaxLegacy legacy rows whose identifier cells hold a text or are empty,  *)
(* with the columns CNIC, Transaction Time, Withdrawal Amount, District    *)
(* Name, Device Latitude, Device Longitude and MotherCNIC, Amount; the     *)
(* amounts are whole numbers, the coordinates are held in tenths.  The     *)
(* user does not press 'Clear Date Filter'.  Except in the entry runs, a   *)
(* run is started with dashboard.py as the main script; except in the      *)
(* cache runs, it is the first run of a session, at time 0 with nothing    *)
(* cached.                                                                 *)
(***************************************************************************)
DRow(cnic, tt, wa, dist, lat, lon) ==
    [CNIC |-> cnic, TransactionTime |-> tt, WithdrawalAmount |-> wa,
     DistrictName |-> dist, DeviceLatitude |-> lat, DeviceLongitude |-> lon]
LRow(cnic, amount) == [MotherCNIC |-> cnic, Amount |-> amount]

\* the cell text dd-mm-YYYY HH:MM:SS of a time
RawTime(d, m, y, hh, mi, ss) ==
    Pad2(d) \o <<"-">> \o Pad2(m) \o <<"-">> \o Pad4(y) \o <<" ">>
    \o Pad2(hh) \o <<":">> \o Pad2(mi) \o <<":">> \o Pad2(ss)
\* a cell text in another format: YYYY-mm-dd HH:MM:SS
IsoTime(d, m, y, hh, mi, ss) ==
    Pad4(y) \o <<"-">> \o Pad2(m) \o <<"-">> \o Pad2(d) \o <<" ">>
    \o Pad2(hh) \o <<":">> \o Pad2(mi) \o <<":">> \o Pad2(ss)

T_Lahore == <<"L", "a", "h", "o", "r", "e">>
Id_A == <<"A">>
Id_B == <<"B">>
Time_Ok == RawTime(21, 4, 2025, 9, 30, 0)
Lat_Ok == Num(315)
Lon_Ok == Num(743)

\* the sequences of 1..n elements of S, and of 0..n
SeqsUpTo(S, n) == UNION {[1..k -> S] : k \in 1..n}
SeqsFrom0(S, n) == UNION {[1..k -> S] : k \in 0..n}

File(rows) == [exists |-> TRUE, has_id |-> TRUE, rows |-> rows]

PlainDaily == <<DRow(Id_A, Time_Ok, 100, T_Lahore, Lat_Ok, Lon_Ok)>>
PlainLegacy == <<LRow(Id_A, Num(500))>>

\* the runs in which load_data fails: a file or an identifier column missing
BrokenFiles ==
    {<<[File(PlainDaily) EXCEPT !.exists = FALSE], File(PlainLegacy)>>,
     <<File(PlainDaily), [File(PlainLegacy) EXCEPT !.exists = FALSE]>>,
     <<[File(PlainDaily) EXCEPT !.has_id = FALSE], File(PlainLegacy)>>,
     <<File(PlainDaily), [File(PlainLegacy) EXCEPT !.has_id = FALSE]>>}

\* the reconciled rows main() gets for two extracts
Reconciled(df, lf) == process_data(CleanDaily(df.rows), CleanLegacy(lf.rows))

NoSelection ==
    [from_date |-> 0, to_date |-> 0, status_filter |-> "All",
     balance_filter |-> "All", district_filter |-> T_All, search_term |-> <<>>]

\* the widgets as they stand when the user touches none of them
DefaultSelection(rows) ==
    [NoSelection EXCEPT !.from_date = DateOf(min_time(rows)),
                        !.to_date = DateOf(max_time(rows))]

\* both files load and some timestamp parses (the date pickers need a range)
Usable(df, lf) ==
    /\ load_data_error(df, lf) = "ok"
    /\ ValidTimes(ParseTimes(df.rows)) # {}

\* nothing of a run is there yet
InitRun ==
    /\ daily_df = None
    /\ legacy_df = None
    /\ processed_df = None
    /\ sel = NoSelection
    /\ display_df = None
    /\ red_flag_msgs = <<>>
    /\ daily = <<>>
    /\ errors = {}
    /\ summary = NoSummary
    /\ stats = NoStats
    /\ fig = NoFig
    /\ globals = NoNames
    /\ pc = "launch"

\* a new session: nothing in st.session_state, nothing cached
InitSession ==
    /\ session_state = NoNames
    /\ now = 0
    /\ cache = NoEntry
    /\ served = [at |-> 0, call |-> 0, found |-> FALSE, found_at |-> 0]

\* the first run of a session started with dashboard.py as the main script
InitRest ==
    /\ InitRun
    /\ InitSession
    /\ entry = "dashboard.py"

\* one of the given pairs of extracts, the widgets untouched
InitFiles(pairs) ==
    /\ \E p \in pairs \cup BrokenFiles :
          daily_file = p[1] /\ legacy_file = p[2]
    /\ IF Usable(daily_file, legacy_file)
       THEN \E rows \in {Reconciled(daily_file, legacy_file)} :
               user = DefaultSelection(rows)
       ELSE user = NoSelection

\* a run on one of the given pairs of extracts, the widgets untouched
InitOn(pairs) ==
    /\ InitFiles(pairs)
    /\ InitRest

\* a run on one of the given pairs, with any selection the widgets offer
InitOnSelecting(pairs, terms) ==
    /\ \E p \in pairs \cup BrokenFiles :
          daily_file = p[1] /\ legacy_file = p[2]
    /\ IF Usable(daily_file, legacy_file)
       THEN \E rows \in {Reconciled(daily_file, legacy_file)} :
               user \in Selections(rows, terms)
       ELSE user = NoSelection
    /\ InitRest

(***************************************************************************)
(* The steps of a run                                                      *)
(***************************************************************************)
\* the script starts: dashboard.py runs its __main__ block and calls main();
\* streamlit_app.main imports dashboard (whose __name__ is then not
\* "__main__") and calls dashboard.main
Launch ==
    /\ pc = "launch"
    /\ IF entry = "dashboard.py"
       THEN /\ globals' = MainBlockGlobals
            /\ session_state' = MainBlockSession(session_state)
       ELSE /\ globals' = globals
            /\ session_state' = session_state
    /\ pc' = "start"
    /\ UNCHANGED <<daily_file, legacy_file, user, daily_df, legacy_df,
                   processed_df, sel, display_df, red_flag_msgs, daily,
                   errors, entry, summary, stats, fig, now, cache, served>>

\* load_data(): the cached entry while it is fresh, else the files are read
\* and the result is stored; both frames, or (None, None) and an error shown
LoadData ==
    /\ pc = "start"
    /\ cache' = IF cache_fresh(cache, now) THEN cache
                ELSE Entry(load_data(daily_file, legacy_file), now)
    /\ served' = [at |-> cache'.at, call |-> now, found |-> cache.some,
                  found_at |-> IF cache.some THEN cache.at ELSE 0]
    /\ daily_df' = cache'.daily
    /\ legacy_df' = cache'.legacy
    /\ errors' = errors \cup cache'.errors
    /\ pc' = IF cache'.daily.some THEN "loaded" ELSE "not_loaded"
    /\ UNCHANGED <<daily_file, legacy_file, user, processed_df, sel,
                   display_df, red_flag_msgs, daily, entry, session_state,
                   globals, summary, stats, fig, now>>

\* main(): the else branch of "if daily_df is not None and legacy_df is not None"
ReportFailure ==
    /\ pc = "not_loaded"
    /\ errors' = errors \cup {ErrFailed}
    /\ pc' = "done"
    /\ UNCHANGED <<daily_file, legacy_file, user, daily_df, legacy_df,
                   processed_df, sel, display_df, red_flag_msgs, daily,
                   entry, session_state, globals, summary, stats, fig, now,
                   cache, served>>

\* process_data(daily_df, legacy_df); the timestamps are parsed in daily_df
ProcessData ==
    /\ pc = "loaded"
    /\ daily_df' = Parsed(ParseTimes(daily_df.rows))
    /\ LET merged == process_data(daily_df.rows, legacy_df.rows)
       IN processed_df' = Frame(merged, AmountIsFloat(merged))
    /\ pc' = "processed"
    /\ UNCHANGED <<daily_file, legacy_file, user, legacy_df, sel, display_df,
                   red_flag_msgs, daily, errors, entry, session_state,
                   globals, summary, stats, fig, now, cache, served>>

\* the sidebar: the widgets return the user's selection
Sidebar ==
    /\ pc = "processed"
    /\ user \in Selections(processed_df.rows, {user.search_term})
    /\ sel' = user
    /\ session_state' = Bind(Bind(session_state, "from_date", user.from_date),
                             "to_date", user.to_date)
    /\ errors' = errors \cup date_order_error(user)
    /\ pc' = "selected"
    /\ UNCHANGED <<daily_file, legacy_file, user, daily_df, legacy_df,
                   processed_df, display_df, red_flag_msgs, daily, entry,
                   globals, summary, stats, fig, now, cache, served>>

\* "APPLY FILTERS"
Filter ==
    /\ pc = "selected"
    /\ display_df' = ApplyFilters(processed_df, sel)
    /\ pc' = "filtered"
    /\ UNCHANGED <<daily_file, legacy_file, user, daily_df, legacy_df,
                   processed_df, sel, red_flag_msgs, daily, errors, entry,
                   session_state, globals, summary, stats, fig, now, cache,
                   served>>

\* "SUMMARY STATISTICS"
Summary ==
    /\ pc = "filtered"
    /\ summary' = SummaryStatistics(display_df.rows, legacy_df.rows)
    /\ pc' = "summarised"
    /\ UNCHANGED <<daily_file, legacy_file, user, daily_df, legacy_df,
                   processed_df, sel, display_df, red_flag_msgs, daily,
                   errors, entry, session_state, globals, stats, fig, now,
                   cache, served>>

\* "RED FLAG SECTION"
RedFlag ==
    /\ pc = "summarised"
    /\ red_flag_msgs' = RedFlags(display_df.rows)
    /\ pc' = "flagged"
    /\ UNCHANGED <<daily_file, legacy_file, user, daily_df, legacy_df,
                   processed_df, sel, display_df, daily, errors, entry,
                   session_state, globals, summary, stats, fig, now, cache,
                   served>>

\* "DAILY WITHDRAWAL TRENDS TABLE"
Trends ==
    /\ pc = "flagged"
    /\ daily' = TrendTable(processed_df.rows)
    /\ pc' = "tabled"
    /\ UNCHANGED <<daily_file, legacy_file, user, daily_df, legacy_df,
                   processed_df, sel, display_df, red_flag_msgs, errors,
                   entry, session_state, globals, summary, stats, fig, now,
                   cache, served>>

\* "SUMMARY STATS BELOW TABLE": int() of the mean of no rows raises
TrendStats ==
    /\ pc = "tabled"
    /\ IF daily_for_avg(daily) # <<>>
       THEN /\ stats' = StatsOver(daily_for_avg(daily))
            /\ errors' = errors
            /\ pc' = "averaged"
       ELSE /\ stats' = stats
            /\ errors' = errors \cup {Raised(entry)}
            /\ pc' = "done"
    /\ UNCHANGED <<daily_file, legacy_file, user, daily_df, legacy_df,
                   processed_df, sel, display_df, red_flag_msgs, daily,
                   entry, session_state, globals, summary, fig, now, cache,
                   served>>

\* "MAP": reading a key st.session_state does not hold, or a global name
\* that is not bound, raises
Map ==
    /\ pc = "averaged"
    /\ IF MapReady(session_state, globals)
       THEN /\ fig' = Figure(display_df.rows, session_state, globals)
            /\ errors' = errors
       ELSE /\ fig' = fig
            /\ errors' = errors \cup {Raised(entry)}
    /\ pc' = "done"
    /\ UNCHANGED <<daily_file, legacy_file, user, daily_df, legacy_df,
                   processed_df, sel, display_df, red_flag_msgs, daily,
                   entry, session_state, globals, summary, stats, now, cache,
                   served>>

Next ==
    \/ Launch
    \/ LoadData
    \/ ReportFailure
    \/ ProcessData
    \/ Sidebar
    \/ Filter
    \/ Summary
    \/ RedFlag
    \/ Trends
    \/ TrendStats
    \/ Map

(***************************************************************************)
(* A session: time passes, the extracts are replaced on disk, and the      *)
(* script is run again (Streamlit reruns it on every interaction); the     *)
(* cache and st.session_state outlive a run.                               *)
(***************************************************************************)
MaxTicks == 6       \* ticks of the clock in a session
TickSeconds == CacheTTL \div 3

Tick ==
    /\ now < MaxTicks * TickSeconds
    /\ now' = now + TickSeconds
    /\ UNCHANGED <<daily_file, legacy_file, user, daily_df, legacy_df,
                   processed_df, sel, display_df, red_flag_msgs, daily,
                   errors, pc, entry, session_state, globals, summary, stats,
                   fig, cache, served>>

\* the script is run again from its first line
Rerun ==
    /\ pc = "done"
    /\ daily_df' = None
    /\ legacy_df' = None
    /\ processed_df' = None
    /\ sel' = NoSelection
    /\ display_df' = None
    /\ red_flag_msgs' = <<>>
    /\ daily' = <<>>
    /\ errors' = {}
    /\ summary' = NoSummary
    /\ stats' = NoStats
    /\ fig' = NoFig
    /\ globals' = NoNames
    /\ pc' = "launch"
    /\ UNCHANGED <<daily_file, legacy_file, user, entry, session_state, now,
                   cache, served>>

\* the extracts of a session: one or two withdrawals of one day, or an
\* extract that does not load
SessionFiles ==
    {<<File(<<DRow(Id_A, Time_Ok, w, T_Lahore, Lat_Ok, Lon_Ok)>>),
       File(PlainLegacy)>> : w \in {100, 300}}

\* other extracts are put in the place of the two files; the user leaves the
\* widgets at their defaults
Replace ==
    /\ \E p \in SessionFiles \cup BrokenFiles :
          /\ p # <<daily_file, legacy_file>>
          /\ daily_file' = p[1]
          /\ legacy_file' = p[2]
          /\ user' = IF Usable(p[1], p[2])
                     THEN DefaultSelection(Reconciled(p[1], p[2]))
                     ELSE user
    /\ UNCHANGED <<daily_df, legacy_df, processed_df, sel, display_df,
                   red_flag_msgs, daily, errors, pc, entry, session_state,
                   globals, summary, stats, fig, now, cache, served>>

NextSession ==
    \/ Next
    \/ Tick
    \/ Rerun
    \/ Replace

(***************************************************************************)
(* Reconciliation runs: identifiers with and without surrounding blanks,   *)
(* absent identifiers, legacy rows that share an identifier.               *)
(***************************************************************************)
ReconDailyRows ==
    {DRow(c, Time_Ok, 100, T_Lahore, Lat_Ok, Lon_Ok) :
        c \in {NaN, Id_A, <<" ", "A">>, Id_B}}
ReconLegacyRows ==
    {LRow(c, a) : c \in {NaN, Id_A, <<"A", " ">>},
                  a \in {NumNaN, Num(500), Num(1500)}}
ReconFiles ==
    {<<File(d), File(l)>> : d \in SeqsUpTo(ReconDailyRows, MaxRows),
                            l \in SeqsFrom0(ReconLegacyRows, MaxLegacy)}

Init == InitOn(ReconFiles)
Spec == Init /\ [][Next]_vars

(***************************************************************************)
(* Category runs: one identifier, legacy amounts on and around the bin     *)
(* edges.                                                                  *)
(***************************************************************************)
EdgeAmounts ==
    {NumNaN, Num(0 - 5), Num(0), Num(1), Num(1000), Num(1001), Num(5000),
     Num(5001), Num(10000), Num(10001), Num(20000)}
CategoryDailyRows ==
    {DRow(c, Time_Ok, 100, T_Lahore, Lat_Ok, Lon_Ok) : c \in {Id_A, Id_B}}
CategoryLegacyRows == {LRow(Id_A, a) : a \in EdgeAmounts}
CategoryFiles ==
    {<<File(d), File(l)>> : d \in SeqsUpTo(CategoryDailyRows, MaxRows),
                            l \in SeqsFrom0(CategoryLegacyRows, MaxLegacy)}

InitCategory == InitOn(CategoryFiles)
SpecCategory == InitCategory /\ [][Next]_vars

(***************************************************************************)
(* Trend runs: timestamps on both sides of a month end and of a year end,  *)
(* the same day and month in two years, two times of one day, and cells    *)
(* that do not parse.                                                      *)
(***************************************************************************)
TrendTimes ==
    {IsoTime(30, 4, 2025, 9, 0, 0), RawTime(31, 4, 2025, 9, 0, 0),
     RawTime(30, 4, 2025, 9, 0, 0), RawTime(1, 5, 2025, 9, 0, 0),
     RawTime(1, 5, 2025, 17, 30, 0), RawTime(1, 5, 2024, 9, 0, 0),
     RawTime(31, 12, 2024, 9, 0, 0)}
TrendDailyRows ==
    {DRow(c, t, w, T_Lahore, Lat_Ok, Lon_Ok) :
        c \in {Id_A, Id_B}, t \in TrendTimes, w \in {0, 100, 300}}
TrendFiles ==
    {<<File(d), File(PlainLegacy)>> : d \in SeqsUpTo(TrendDailyRows, MaxRows)}

InitTrend == InitOn({p \in TrendFiles : Usable(p[1], p[2])})
SpecTrend == InitTrend /\ [][Next]_vars

(***************************************************************************)
(* Filter runs: matched and unmatched rows, districts present and absent,  *)
(* a timestamp at midnight, one during the day and one that does not       *)
(* parse; every selection the widgets offer, with three search terms.      *)
(***************************************************************************)
SearchTerms ==
    {<<>>, <<"L", "A", "H">>, <<"0", "0", ":", "0", "0", ":", "0", "0">>}
FilterDailyRows ==
    {DRow(c, t, 100, dist, Lat_Ok, Lon_Ok) :
        c \in {Id_A, Id_B},
        t \in {IsoTime(1, 5, 2025, 9, 30, 0), RawTime(1, 5, 2025, 0, 0, 0),
               RawTime(2, 5, 2025, 9, 30, 0)},
        dist \in {NaN, T_Lahore}}
FilterFiles ==
    {<<File(d), File(PlainLegacy)>> : d \in SeqsUpTo(FilterDailyRows, MaxRows)}

InitFilter ==
    InitOnSelecting({p \in FilterFiles : Usable(p[1], p[2])}, SearchTerms)
SpecFilter == InitFilter /\ [][Next]_vars

(***************************************************************************)
(* Anomaly runs: identifier, district and coordinates present or absent.   *)
(***************************************************************************)
AnomalyDailyRows ==
    {DRow(c, Time_Ok, 100, dist, lat, lon) :
        c \in {NaN, Id_A, Id_B}, dist \in {NaN, T_Lahore},
        lat \in {NumNaN, Lat_Ok}, lon \in {NumNaN, Lon_Ok}}
AnomalyFiles ==
    {<<File(d), File(PlainLegacy)>> : d \in SeqsUpTo(AnomalyDailyRows, MaxRows)}

InitAnomaly == InitOn(AnomalyFiles)
SpecAnomaly == InitAnomaly /\ [][Next]_vars

(***************************************************************************)
(* Schema runs: each extract with or without its identifier column.  In a  *)
(* file whose has_id is FALSE the sheet has no such column: the identifier *)
(* field of its rows stands for nothing and is never read.                 *)
(***************************************************************************)
SchemaDailyRows ==
    {DRow(c, Time_Ok, 100, T_Lahore, Lat_Ok, Lon_Ok) : c \in {NaN, Id_A, Id_B}}
SchemaLegacyRows == {LRow(c, Num(500)) : c \in {NaN, Id_A}}
SchemaFiles ==
    {<<[File(d) EXCEPT !.has_id = hd], [File(l) EXCEPT !.has_id = hl]>> :
        d \in SeqsUpTo(SchemaDailyRows, MaxRows),
        l \in SeqsFrom0(SchemaLegacyRows, MaxLegacy),
        hd \in BOOLEAN, hl \in BOOLEAN}

InitSchema == InitOn(SchemaFiles)
SpecSchema == InitSchema /\ [][Next]_vars

(***************************************************************************)
(* Date runs: rows on two days and a row whose timestamp does not parse;   *)
(* every selection the widgets offer, so also a From date after the To     *)
(* date.                                                                   *)
(***************************************************************************)
DateDailyRows ==
    {DRow(c, t, 100, T_Lahore, Lat_Ok, Lon_Ok) :
        c \in {Id_A, Id_B},
        t \in {RawTime(1, 5, 2025, 9, 30, 0), RawTime(2, 5, 2025, 9, 30, 0),
               IsoTime(2, 5, 2025, 9, 30, 0)}}
DateFiles ==
    {<<File(d), File(PlainLegacy)>> : d \in SeqsUpTo(DateDailyRows, MaxRows)}

InitDates == InitOnSelecting({p \in DateFiles : Usable(p[1], p[2])}, {<<>>})
SpecDates == InitDates /\ [][Next]_vars

(***************************************************************************)
(* Cache runs: sessions on the extracts of a session.                      *)
(***************************************************************************)
InitCache == InitOn(SessionFiles)
SpecCache == InitCache /\ [][NextSession]_vars

(***************************************************************************)
(* Pilot runs: withdrawals on the pilot day (18 April 2025), on the two    *)
(* days after the week-end that follows it, and rows whose timestamp does  *)
(* not parse.                                                              *)
(***************************************************************************)
PilotTimes ==
    {RawTime(18, 4, 2025, 10, 0, 0), RawTime(21, 4, 2025, 9, 30, 0),
     RawTime(22, 4, 2025, 9, 30, 0), IsoTime(21, 4, 2025, 9, 30, 0)}
PilotDailyRows ==
    {DRow(c, t, w, T_Lahore, Lat_Ok, Lon_Ok) :
        c \in {Id_A, Id_B}, t \in PilotTimes, w \in {100, 300}}
PilotFiles ==
    {<<File(d), File(PlainLegacy)>> : d \in SeqsUpTo(PilotDailyRows, MaxRows)}

InitPilot == InitOn({p \in PilotFiles : Usable(p[1], p[2])})
SpecPilot == InitPilot /\ [][Next]_vars

(***************************************************************************)
(* Entry runs: the first run of a session started with either script, on   *)
(* extracts that load, with rows that have coordinates and rows without.   *)
(***************************************************************************)
EntryDailyRows ==
    {DRow(c, Time_Ok, 100, T_Lahore, lat, Lon_Ok) :
        c \in {Id_A, Id_B}, lat \in {NumNaN, Lat_Ok}}
EntryFiles ==
    {<<File(d), File(PlainLegacy)>> : d \in SeqsUpTo(EntryDailyRows, MaxRows)}

InitEntry ==
    /\ InitFiles(EntryFiles)
    /\ InitRun
    /\ InitSession
    /\ entry \in EntryPoints
SpecEntry == InitEntry /\ [][Next]_vars

(***************************************************************************)
(* Claims                                                                  *)
(***************************************************************************)
Rows(df) == {df.rows[i] : i \in 1..Len(df.rows)}

\* C1: the relation process_data returns has exactly as many rows as the
\* transaction extract, each transaction row yielding exactly one reconciled
\* row, also when legacy rows share a MotherCNIC.
C1_OneRowPerTransaction ==
    processed_df.some =>
        /\ Len(processed_df.rows) = Len(daily_file.rows)
        /\ \A i \in 1..Len(daily_file.rows) :
              Cardinality({k \in 1..Len(processed_df.rows) :
                              processed_df.rows[k].src = i}) = 1

\* C2: a reconciled row is 'Legacy' if and only if the legacy extract holds a
\* record whose trimmed identifier equals the row's trimmed identifier, and a
\* transaction row whose identifier is absent is never 'Legacy'.
C2_StatusIffIdentifierMatch ==
    processed_df.some =>
        \A r \in Rows(processed_df) :
            LET id == daily_file.rows[r.src].CNIC
            IN r.Status =
                 IF /\ ~isna(id)
                    /\ \E j \in 1..Len(legacy_file.rows) :
                          /\ ~isna(legacy_file.rows[j].MotherCNIC)
                          /\ strip(legacy_file.rows[j].MotherCNIC) = strip(id)
                 THEN "Legacy" ELSE "Non-Legacy"

\* the balance the category of a reconciled row is derived from
MatchedAmount(r) ==
    IF r.Status = "Non-Legacy" \/ r.Amount.na THEN 0 ELSE r.Amount.v

\* C3: Balance_Category is the bin of the matched amount (0 when unmatched or
\* absent): <= 0 No Balance, (0, 1000] Low, (1000, 5000] Medium,
\* (5000, 10000] High, > 10000 Very High.
C3_BalanceCategoryBins ==
    processed_df.some =>
        \A r \in Rows(processed_df) :
            LET a == MatchedAmount(r)
            IN /\ (a <= 0) <=> (r.Balance_Category = "No Balance")
               /\ (0 < a /\ a <= 1000) <=> (r.Balance_Category = "Low")
               /\ (1000 < a /\ a <= 5000) <=> (r.Balance_Category = "Medium")
               /\ (5000 < a /\ a <= 10000) <=> (r.Balance_Category = "High")
               /\ (a > 10000) <=> (r.Balance_Category = "Very High")

\* a reconciled relation with a row on the edge 1000 and a row on the edge
\* 10000, each in the lower category
C3_Witness ==
    /\ processed_df.some
    /\ \E r \in Rows(processed_df) :
          MatchedAmount(r) = 1000 /\ r.Balance_Category = "Low"
    /\ \E r \in Rows(processed_df) :
          MatchedAmount(r) = 10000 /\ r.Balance_Category = "High"

\* the per-day rows of the trend table (all but the Grand Total row)
PerDay == SubSeq(daily, 1, Len(daily) - 1)
GrandTotalRow == daily[Len(daily)]
TableBuilt == pc \in {"tabled", "averaged", "done"} /\ processed_df.some

RECURSIVE SumAmounts(_, _)
SumAmounts(t, k) ==
    IF k = 0 THEN 0 ELSE uncomma(t[k].WithdrawalAmount) + SumAmounts(t, k - 1)

\* the Withdrawal Amount of the reconciled rows at the positions S
TotalOf(S) ==
    SumOver([i \in 1..Len(processed_df.rows) |->
                processed_df.rows[i].WithdrawalAmount], S)
AllRows == 1..Len(processed_df.rows)
\* the rows of a calendar date
RowsOn(date) ==
    {i \in AllRows : /\ ~isnat(processed_df.rows[i].TransactionTime)
                     /\ DateOf(processed_df.rows[i].TransactionTime) = date}

\* C4: the Withdrawal Amounts of the per-day rows add up to the total
\* Withdrawal Amount of the reconciled relation, the amount of the Grand Total
\* row, also when some timestamps failed to parse.
C4_PerDaySumIsTotal ==
    TableBuilt =>
        /\ uncomma(GrandTotalRow.WithdrawalAmount) = TotalOf(AllRows)
        /\ SumAmounts(PerDay, Len(PerDay)) = TotalOf(AllRows)

\* the calendar dates of the reconciled rows whose timestamp parsed
CalendarDates == {DateOf(t) : t \in ValidTimes(processed_df.rows)}

\* C5: the per-day buckets are the calendar dates (year, month, day): one row
\* per date, holding the sum of the amounts of the records of that date.
C5_BucketsAreCalendarDates ==
    TableBuilt =>
        /\ Len(PerDay) = Cardinality(CalendarDates)
        /\ \A date \in CalendarDates :
              \E k \in 1..Len(PerDay) :
                 uncomma(PerDay[k].WithdrawalAmount) = TotalOf(RowsOn(date))

\* C6: the first row of the trend table shows '-' as its percent change and
\* is the bucket of the earliest calendar date of the data.
C6_FirstRowIsEarliestDate ==
    (TableBuilt /\ Len(PerDay) > 0) =>
        /\ PerDay[1].PctIncrease = T_dash
        /\ PerDay[1].Date = strftime_d_b(min_time(processed_df.rows))

\* (cur - prev) / prev as an integer percentage
IntegerPercent(cur, prev) ==
    (IF Negative(cur - prev, prev)
        /\ RoundHalfEven(100 * (cur - prev), prev) # 0
     THEN <<"-">> ELSE <<>>)
    \o NatText(RoundHalfEven(100 * (cur - prev), prev)) \o <<"%">>

\* C7: every row after the first shows the integer percentage of
\* (current - previous) / previous, 0% when the two amounts are equal, and
\* shows no result of a division by zero when the previous amount is 0.
C7_PercentChange ==
    TableBuilt =>
        \A k \in 2..Len(PerDay) :
            LET cur == uncomma(PerDay[k].WithdrawalAmount)
                prev == uncomma(PerDay[k - 1].WithdrawalAmount)
            IN IF prev # 0
               THEN PerDay[k].PctIncrease = IntegerPercent(cur, prev)
               ELSE PerDay[k].PctIncrease # T_inf_pct

\* the category a label of the Legacy Balance selectbox stands for
Selected(label, category) == balance_category_labels(category) = label

\* the row satisfies every active predicate of the selection s
Satisfies(r, s) ==
    /\ ~isnat(r.TransactionTime)
    /\ s.from_date <= DateOf(r.TransactionTime)
    /\ DateOf(r.TransactionTime) <= s.to_date
    /\ s.status_filter = "All" \/ r.Status = s.status_filter
    /\ s.balance_filter = "All" \/ Selected(s.balance_filter, r.Balance_Category)
    /\ \/ s.district_filter = T_All
       \/ s.district_filter = T_Blank /\ isna(r.DistrictName)
       \/ s.district_filter = r.DistrictName
    /\ \/ s.search_term = <<>>
       \/ SearchHit(r, s.search_term, is_dates_only(processed_df.rows),
                    processed_df.amount_float)

\* C8: the display subset is exactly the reconciled rows that satisfy all
\* active predicates; a selected balance category keeps the rows of that
\* category, 'All' keeps every row.
C8_DisplayIsSatisfyingRows ==
    display_df.some =>
        display_df.rows =
            Select(processed_df.rows,
                   [i \in 1..Len(processed_df.rows) |->
                       Satisfies(processed_df.rows[i], sel)])

\* C9: filtering the display subset again with the same selection gives the
\* display subset.
C9_FilterIdempotent ==
    display_df.some => ApplyFilters(display_df, sel).rows = display_df.rows

Flagged == pc \in {"flagged", "tabled", "averaged", "done"} /\ display_df.some

\* the messages of one kind
MsgsOf(kind) ==
    {i \in 1..Len(red_flag_msgs) : red_flag_msgs[i].kind = kind}

\* the identifier of the transaction row is absent in the extract
IdentifierAbsent(r) == isna(daily_file.rows[r.src].CNIC)

BlankDistrictRows == {r \in Rows(display_df) : isna(r.DistrictName)}
MissingCoordsRows ==
    {r \in Rows(display_df) : r.DeviceLatitude.na \/ r.DeviceLongitude.na}
IdentifierAbsentRows == {r \in Rows(display_df) : IdentifierAbsent(r)}

\* the number of rows of the display subset that are in S
RecordCount(S) ==
    Cardinality({i \in 1..Len(display_df.rows) : display_df.rows[i] \in S})
\* the number of distinct identifiers of the rows in S
DistinctIds(S) ==
    Cardinality({strip(daily_file.rows[r.src].CNIC) :
                    r \in {x \in S : ~IdentifierAbsent(x)}})

\* exactly one message of the kind iff some row is in S, and it carries the
\* record count and the distinct-identifier count
OneMessage(kind, S) ==
    /\ Cardinality(MsgsOf(kind)) = IF S # {} THEN 1 ELSE 0
    /\ \A i \in MsgsOf(kind) :
          /\ red_flag_msgs[i].count = RecordCount(S)
          /\ "unique" \in DOMAIN red_flag_msgs[i]
          /\ red_flag_msgs[i].unique = DistinctIds(S)

\* C10: each of the three conditions (district absent; latitude or longitude
\* absent; identifier absent) gives exactly one message iff a record
\* satisfies it, with both counts; with no such record the list is the single
\* 'no issues detected' message.
C10_AnomalyMessages ==
    Flagged =>
        /\ OneMessage("Blank District", BlankDistrictRows)
        /\ OneMessage("missing coordinates", MissingCoordsRows)
        /\ OneMessage("missing CNIC", IdentifierAbsentRows)
        /\ (BlankDistrictRows \cup MissingCoordsRows \cup IdentifierAbsentRows
               = {})
           => red_flag_msgs = <<[kind |-> "No major data issues detected."]>>

\* C11: the red-flag messages depend only on the reconciled relation: for
\* the relation of the run, every selection the widgets offer gives the
\* message list the run's selection gave.
C11_AnomalyIndependentOfFilters ==
    Flagged =>
        \A s \in Selections(processed_df.rows, SearchTerms) :
            RedFlags(ApplyFilters(processed_df, s).rows) = red_flag_msgs

\* both extracts are there and one of them lacks its identifier column
IdentifierColumnMissing ==
    /\ daily_file.exists
    /\ legacy_file.exists
    /\ ~daily_file.has_id \/ ~legacy_file.has_id

\* the run has produced no frame, no statistics, no message list, no table
\* and no map
NoOutput ==
    /\ daily_df = None
    /\ legacy_df = None
    /\ processed_df = None
    /\ display_df = None
    /\ summary = NoSummary
    /\ red_flag_msgs = <<>>
    /\ daily = <<>>
    /\ stats = NoStats
    /\ fig = NoFig

\* C12: when 'CNIC' is missing from the transaction extract or 'MotherCNIC'
\* from the legacy extract, load_data reports the error and returns no data,
\* and the run ends with no reconciled relation, no summary statistics, no
\* anomaly messages and no trend table.
C12_MissingIdentifierColumnIsFatal ==
    IdentifierColumnMissing =>
        /\ NoOutput
        /\ pc \in {"launch", "start", "not_loaded", "done"}
        /\ pc \in {"not_loaded", "done"} => ErrLoading \in errors
        /\ pc = "done" => ErrFailed \in errors

\* a finished run on a legacy extract without 'MotherCNIC' and a complete
\* transaction extract
C12_Witness ==
    /\ pc = "done"
    /\ daily_file.has_id
    /\ legacy_file.exists
    /\ ~legacy_file.has_id
    /\ errors = {ErrLoading, ErrFailed}
    /\ NoOutput

\* the widgets have returned a From date that is after the To date
DatesInverted ==
    /\ processed_df.some
    /\ pc \notin {"launch", "start", "loaded", "processed"}
    /\ sel.from_date > sel.to_date

\* C13: with From after To the run shows the input error, the filters are
\* evaluated on the bounds as given (a displayed row lies within them, so
\* none is displayed) and every later step of the run is taken: the
\* statistics, the messages, the table and the map are produced and no other
\* error is shown.
C13_InvertedDatesReportedRunContinues ==
    DatesInverted =>
        /\ errors = {ErrDateOrder}
        /\ pc # "selected" =>
              /\ display_df.some
              /\ \A r \in Rows(display_df) :
                    /\ sel.from_date <= DateOf(r.TransactionTime)
                    /\ DateOf(r.TransactionTime) <= sel.to_date
        /\ pc = "done" =>
              /\ summary.some /\ summary.total_records = 0
              /\ red_flag_msgs # <<>>
              /\ Len(daily) > 1
              /\ stats.some
              /\ fig.some

\* a finished run in which From was after To
C13_Witness ==
    /\ DatesInverted
    /\ pc = "done"
    /\ ErrDateOrder \in errors
    /\ display_df.some
    /\ fig.some

\* the frames the body of load_data gives for the files as they are
ReadNow == load_data(daily_file, legacy_file)

\* C14: the frames load_data returns were computed at most CacheTTL seconds
\* before the call, and a call made when there is no entry, or CacheTTL
\* seconds or more after the entry was computed, reads both extracts again,
\* whatever they hold.
C14_CacheBoundedStaleness ==
    /\ [](served.call - served.at <= CacheTTL)
    /\ [][(pc = "start" /\ pc' # "start"
           /\ (~cache.some \/ now - cache.at >= CacheTTL))
          => /\ cache'.at = now
             /\ daily_df' = ReadNow.daily
             /\ legacy_df' = ReadNow.legacy]_vars

\* a call of load_data that found an entry CacheTTL seconds old or older
\* and returned frames computed at the call
C14_Witness ==
    /\ pc = "loaded"
    /\ served.found
    /\ served.call - served.found_at >= CacheTTL
    /\ served.at = served.call
    /\ daily_df = Loaded(CleanDaily(daily_file.rows))

\* the rows of the trend table of the pilot day, and of the other days
PilotDays == {k \in 1..Len(PerDay) : PerDay[k].Date = T_Pilot}
OtherDays == {k \in 1..Len(PerDay) : PerDay[k].Date # T_Pilot}
PLWsOf == [k \in 1..Len(PerDay) |-> PerDay[k].PLWs]
AmountOf == [k \in 1..Len(PerDay) |-> uncomma(PerDay[k].WithdrawalAmount)]

\* x is the greatest of f over S
IsMax(x, f, S) == (\E k \in S : f[k] = x) /\ (\A k \in S : f[k] <= x)
\* x is the mean of f over S, its fraction cut off
IsMean(x, f, S) ==
    /\ x * Cardinality(S) <= SumOver(f, S)
    /\ SumOver(f, S) < (x + 1) * Cardinality(S)

\* the statistics below the table have been computed, or the step has failed
StatsStepTaken == pc \in {"averaged", "done"} /\ processed_df.some

\* C15: the trend table has a row for every day and month of the data, the
\* pilot day '18-Apr' among them; the Grand Total row counts the PLWs of
\* every row and the amount of every record; the highest and the average
\* number of PLWs and amount are those of the rows other than the pilot
\* day's.
C15_PilotDayExcludedFromStatsOnly ==
    /\ TableBuilt =>
          /\ {PerDay[k].Date : k \in 1..Len(PerDay)}
                = Labels(processed_df.rows)
          /\ (PilotDays # {}) <=>
                \E i \in AllRows :
                   LET t == processed_df.rows[i].TransactionTime
                   IN ~isnat(t) /\ t.m = 4 /\ t.d = 18
          /\ GrandTotalRow.PLWs = SumOver(PLWsOf, PilotDays \cup OtherDays)
          /\ uncomma(GrandTotalRow.WithdrawalAmount) = TotalOf(AllRows)
    /\ StatsStepTaken =>
          /\ stats.some <=> OtherDays # {}
          /\ stats.some =>
                /\ IsMax(stats.highest_plws, PLWsOf, OtherDays)
                /\ IsMax(stats.highest_withdrawal, AmountOf, OtherDays)
                /\ IsMean(stats.avg_plws, PLWsOf, OtherDays)
                /\ IsMean(stats.avg_withdrawal, AmountOf, OtherDays)

\* a finished run whose table has the pilot day's row, with a greater amount
\* than any other day
C15_Witness ==
    /\ pc = "done"
    /\ stats.some
    /\ \E k \in PilotDays : AmountOf[k] > stats.highest_withdrawal
    /\ GrandTotalRow.PLWs > SumOver(PLWsOf, OtherDays)

\* C16: process_data leaves both of its arguments as they were: the step
\* that calls it changes no field of any row of daily_df or of legacy_df.
C16_ProcessDataLeavesInputsUnchanged ==
    [][pc = "loaded" =>
          /\ legacy_df' = legacy_df
          /\ daily_df'.time_dtype = daily_df.time_dtype
          /\ daily_df'.rows = daily_df.rows]_vars

\* C17: with either entry point, when the run comes to the map step the
\* keys 'map_zoom' and 'map_center' are in st.session_state and
\* pakistan_bounds is bound, and the run over two extracts that load ends
\* with the map drawn and no error shown.
C17_MapStateInitialised ==
    /\ pc = "averaged" =>
          /\ {"map_zoom", "map_center"} \subseteq DOMAIN session_state
          /\ "pakistan_bounds" \in DOMAIN globals
    /\ (pc = "done" /\ processed_df.some) => (errors = {} /\ fig.some)

====
